---------------------------- MODULE Spec2Model ----------------------------
(***************************************************************************)
(* State-machine model of the trade state engine of src/src/main.rs:       *)
(* the App aggregate (log, balances, view state), the mpsc bridge between  *)
(* the websocket producer thread and the render/update loop, the key       *)
(* handlers, and the windowing arithmetic of draw_trades_table.            *)
(*                                                                         *)
(* Strings that the program edits or case-folds character by character     *)
(* (search_input, active_search_symbol, coin_symbol) are sequences of      *)
(* one-character strings; indices into search_input are BYTE indices, as   *)
(* in Rust.  trade_type_val, action and username are only compared as      *)
(* whole strings and are TLA+ strings.                                     *)
(*                                                                         *)
(* f64 quantities are modelled by a binary floating-point format with      *)
(* MantBits bits of mantissa and round-to-nearest-even (IEEE 754 addition  *)
(* is the exact sum rounded once); values are integers, so exponents are   *)
(* >= 0, and there is no overflow to infinity within the bounds.  A balance *)
(* starts at +0.0 and -0.0 can then never arise, so zero is unsigned.      *)
(***************************************************************************)
EXTENDS Integers, Sequences, FiniteSets, TLC

(***************************************************************************)
(* Bounds of the model.                                                    *)
(***************************************************************************)
MantBits == 3

(***************************************************************************)
(* Floating point.                                                         *)
(***************************************************************************)
RECURSIVE Pow2(_)
Pow2(n) == IF n = 0 THEN 1 ELSE 2 * Pow2(n - 1)

\* The unit in the last place of the binade that holds x > 0.
RECURSIVE Ulp(_, _)
Ulp(x, u) == IF x < u * Pow2(MantBits) THEN u ELSE Ulp(x, 2 * u)

FRoundAbs(x) ==
    LET u == Ulp(x, 1)
        q == x \div u
        r == x % u
    IN  IF 2 * r > u \/ (2 * r = u /\ q % 2 = 1) THEN (q + 1) * u ELSE q * u

FRound(x) == IF x < 0 THEN 0 - FRoundAbs(0 - x) ELSE FRoundAbs(x)

\* f64 `+=` and `-=`.
FAdd(a, b) == FRound(a + b)

FSub(a, b) == FRound(a - b)

(***************************************************************************)
(* Text.                                                                   *)
(***************************************************************************)
Chars == {"b", "B", "t", "T", " ", "e_acute", "E_ACUTE"}

\* char::len_utf8: e-acute and E-acute take two bytes.
Utf8Len(c) == IF c \in {"e_acute", "E_ACUTE"} THEN 2 ELSE 1

UpperChar(c) ==
    CASE c = "b" -> "B"
      [] c = "t" -> "T"
      [] c = "e_acute" -> "E_ACUTE"
      [] OTHER -> c

\* str::to_uppercase
ToUppercase(s) == [i \in 1..Len(s) |-> UpperChar(s[i])]

\* str::to_lowercase on the trade-type tags of the feed.
ToLowercaseTag(s) ==
    CASE s = "ALL-TRADES" -> "all-trades"
      [] s = "Live-Trade" -> "live-trade"
      [] OTHER -> s

RECURSIVE ByteLen(_)
ByteLen(s) == IF s = <<>> THEN 0 ELSE Utf8Len(Head(s)) + ByteLen(Tail(s))


(***************************************************************************)
(* Option<T>: None is the empty sequence, Some(x) the one-element one.     *)
(***************************************************************************)
None == <<>>

Some(x) == <<x>>

(***************************************************************************)
(* The program's state.                                                    *)
(*   App: search_input .. cursor_position (struct App).                    *)
(*   chan: the mpsc channel; tx_alive: the Sender is not dropped yet.      *)
(*   db: the rows of table trades, oldest first (id ascending).           *)
(*   height: the terminal's row count.                                     *)
(*   pc: the position of main/run_app; frame: what the last draw showed.   *)
(*   sent, loaded: history of what the producer enqueued and of the        *)
(*   initial_trades main loaded.                                           *)
(*   call, result: argument and value of a function applied on its own.    *)
(***************************************************************************)
VARIABLES search_input, active_search_symbol, all_trades, user_balances,
          scroll_offset, trade_type_filter, input_mode, cursor_position,
          chan, tx_alive, db, height, pc, frame, sent, loaded, call, result

app_vars == <<search_input, active_search_symbol, all_trades, user_balances,
              scroll_offset, trade_type_filter, input_mode, cursor_position>>

view_vars == <<search_input, active_search_symbol, scroll_offset,
               trade_type_filter, input_mode, cursor_position>>

vars == <<search_input, active_search_symbol, all_trades, user_balances,
          scroll_offset, trade_type_filter, input_mode, cursor_position,
          chan, tx_alive, db, height, pc, frame, sent, loaded, call, result>>

(***************************************************************************)
(* Ledger: balances are a map username -> (coin_symbol -> f64).            *)
(***************************************************************************)
EmptyBalances == << >>

\* .entry(username).or_insert_with(HashMap::new).entry(coin_symbol).or_insert(0.0)
Entry(b, u, c) ==
    IF u \notin DOMAIN b THEN b @@ (u :> (c :> 0))
    ELSE IF c \notin DOMAIN b[u] THEN [b EXCEPT ![u] = @ @@ (c :> 0)]
    ELSE b

\* The balance update shared by add_trade and recalculate_balances_from_trades.
ApplyDeltaSwapped(b, trade) ==
    [Entry(b, trade.username, trade.coin_symbol)
        EXCEPT ![trade.username][trade.coin_symbol] =
            IF trade.action = "BUY" THEN FSub(@, trade.amount)
            ELSE IF trade.action = "SELL" THEN FAdd(@, trade.amount)
            ELSE @]

\* An update that takes every action other than "BUY" for a sale.
ApplyDeltaElseSell(b, trade) ==
    [Entry(b, trade.username, trade.coin_symbol)
        EXCEPT ![trade.username][trade.coin_symbol] =
            IF trade.action = "BUY" THEN FAdd(@, trade.amount)
            ELSE FSub(@, trade.amount)]

ApplyDelta(b, trade) ==
    [Entry(b, trade.username, trade.coin_symbol)
        EXCEPT ![trade.username][trade.coin_symbol] =
            IF trade.action = "BUY" THEN FAdd(@, trade.amount)
            ELSE IF trade.action = "SELL" THEN FSub(@, trade.amount)
            ELSE @]

\* for trade in trades.iter().rev(): indices Len(trades) down to 1.
RECURSIVE ReplayRev(_, _, _)
ReplayRev(trades, i, b) ==
    IF i = 0 THEN b ELSE ReplayRev(trades, i - 1, ApplyDelta(b, trades[i]))

\* The same loop without .rev(): newest trade first.
RECURSIVE ReplayFwd(_, _, _)
ReplayFwd(trades, i, b) ==
    IF i > Len(trades) THEN b ELSE ReplayFwd(trades, i + 1, ApplyDelta(b, trades[i]))

RecalculateNewestFirst(trades) == ReplayFwd(trades, 1, EmptyBalances)

RecalculateBalancesFromTrades(trades) == ReplayRev(trades, Len(trades), EmptyBalances)

(***************************************************************************)
(* View Compiler.                                                          *)
(***************************************************************************)
TypeMatches(trade, type_filter) ==
    \/ type_filter = None
    \/ /\ type_filter # None
       /\ ToLowercaseTag(trade.trade_type_val) = ToLowercaseTag(type_filter[1])

SymbolMatchesExact(trade, symbol) ==
    \/ symbol = None
    \/ symbol # None /\ trade.coin_symbol = symbol[1]

SymbolMatches(trade, symbol) ==
    \/ symbol = None
    \/ symbol # None /\ ToUppercase(trade.coin_symbol) = symbol[1]

GetVisibleTrades(trades, type_filter, symbol) ==
    LET ByType(t) == TypeMatches(t, type_filter)
        BySymbol(t) == SymbolMatches(t, symbol)
        trades_after_type_filter == SelectSeq(trades, ByType)
    IN  SelectSeq(trades_after_type_filter, BySymbol)

(***************************************************************************)
(* Scrolling.  usize arithmetic: every subtraction below is guarded by the  *)
(* comparison before it, or saturating.                                    *)
(***************************************************************************)
SaturatingSub(a, b) == IF a > b THEN a - b ELSE 0

Min(a, b) == IF a < b THEN a ELSE b

Max(a, b) == IF a > b THEN a ELSE b

ScrollUp(offset) == IF offset > 0 THEN offset - 1 ELSE offset

\* A scroll_down with the two incrementing branches only.
ScrollDownNoClamp(offset, total_items, num_visible_items) ==
    IF total_items > 0 /\ offset < SaturatingSub(total_items, 1)
    THEN IF total_items > num_visible_items
            /\ offset < total_items - num_visible_items
         THEN offset + 1
         ELSE IF total_items <= num_visible_items /\ offset < total_items - 1
         THEN offset + 1
         ELSE offset
    ELSE offset

ScrollDown(offset, total_items, num_visible_items) ==
    IF total_items > 0 /\ offset < SaturatingSub(total_items, 1)
    THEN IF total_items > num_visible_items
            /\ offset < total_items - num_visible_items
         THEN offset + 1
         ELSE IF total_items <= num_visible_items /\ offset < total_items - 1
         THEN offset + 1
         ELSE IF total_items > num_visible_items
                 /\ offset >= total_items - num_visible_items
         THEN total_items - num_visible_items
         ELSE offset
    ELSE offset

\* for _ in 0..10 { app.scroll_up(); }
RECURSIVE ScrollUpTimes(_, _)
ScrollUpTimes(n, offset) ==
    IF n = 0 THEN offset ELSE ScrollUpTimes(n - 1, ScrollUp(offset))

PageStep == 10

(***************************************************************************)
(* Type filter and search.                                                 *)
(***************************************************************************)
ToggleThroughNone(type_filter) ==
    CASE type_filter = Some("live-trade") -> None
      [] type_filter = Some("all-trades") -> Some("live-trade")
      [] type_filter = None -> Some("all-trades")
      [] OTHER -> Some("live-trade")

ToggleTradeTypeFilter(type_filter) ==
    CASE type_filter = Some("live-trade") -> Some("all-trades")
      [] type_filter = Some("all-trades") -> Some("live-trade")
      [] type_filter = None -> Some("all-trades")
      [] OTHER -> Some("live-trade")

\* str::trim on the characters of the model.
RECURSIVE TrimStart(_)
TrimStart(s) == IF s # <<>> /\ Head(s) = " " THEN TrimStart(Tail(s)) ELSE s

RECURSIVE TrimEnd(_)
TrimEnd(s) ==
    IF s # <<>> /\ s[Len(s)] = " " THEN TrimEnd(SubSeq(s, 1, Len(s) - 1)) ELSE s

\* A commit that trims the buffer first.
SubmitSearchTrimmed(input) ==
    LET trimmed == TrimEnd(TrimStart(input))
    IN  IF trimmed = <<>> THEN None ELSE Some(ToUppercase(trimmed))

\* The value submit_search gives active_search_symbol.
SubmitSearch(input) ==
    IF input = <<>> THEN None ELSE Some(ToUppercase(input))

(***************************************************************************)
(* The search buffer is a String and cursor_position a byte index into it. *)
(***************************************************************************)
PrefixBytes(s, k) == ByteLen(SubSeq(s, 1, k))

\* str::is_char_boundary
IsCharBoundary(s, idx) == \E k \in 0..Len(s) : PrefixBytes(s, k) = idx

\* The number of characters that lie before the boundary idx.
CharsBefore(s, idx) == CHOOSE k \in 0..Len(s) : PrefixBytes(s, k) = idx

\* String::insert panics unless idx is a char boundary (idx <= len included).
InsertPanics(s, idx) == ~IsCharBoundary(s, idx)

StringInsert(s, idx, c) ==
    LET k == CharsBefore(s, idx)
    IN  SubSeq(s, 1, k) \o <<c>> \o SubSeq(s, k + 1, Len(s))

\* String::remove panics unless a character starts at idx.
RemovePanics(s, idx) == ~IsCharBoundary(s, idx) \/ idx >= ByteLen(s)

StringRemove(s, idx) ==
    LET k == CharsBefore(s, idx)
    IN  SubSeq(s, 1, k) \o SubSeq(s, k + 2, Len(s))

MoveCursorLeft(cursor) == IF cursor > 0 THEN cursor - 1 ELSE cursor

\* A move to the right that does not look at the length of the buffer.
MoveCursorRightUnchecked(cursor, input) == cursor + 1

MoveCursorRight(cursor, input) ==
    IF cursor < ByteLen(input) THEN cursor + 1 ELSE cursor

(***************************************************************************)
(* Layout and draw_trades_table.                                           *)
(***************************************************************************)
\* ui: margin(1), then Length(3) for the search box and Min(0) for the rest.
ContentAreaHeight(h) ==
    LET inner == IF h >= 2 THEN h - 2 ELSE 0
    IN  SaturatingSub(inner, 3)

\* run_app, KeyCode::Down and KeyCode::PageDown.
KeyVisibleHeight(h) == IF h > 5 THEN h - 5 ELSE 0

VisibleRowCount(area_height) == IF area_height > 3 THEN area_height - 3 ELSE 0

\* area.inner(Margin { vertical: 1, horizontal: 0 }).height
ScrollbarTrackHeight(area_height) == IF area_height >= 2 THEN area_height - 2 ELSE 0

ClampOffsetToLastRow(offset, n, visible_row_count) ==
    IF n = 0 THEN 0
    ELSE IF offset >= n THEN SaturatingSub(n, 1)
    ELSE offset

ClampOffset(offset, n, visible_row_count) ==
    LET o1 == IF n = 0 THEN 0
              ELSE IF offset >= n THEN SaturatingSub(n, 1)
              ELSE offset
    IN  IF n > visible_row_count /\ o1 > n - visible_row_count
        THEN n - visible_row_count
        ELSE o1

\* ((a as f32 / b as f32) * c as f32) as u16 for the small a, b, c of the
\* model: the f32 product is within one rounding of a*c/b, so its truncation
\* is the exact floor, except that a product that is exactly integral may
\* be computed just below it.
F32ScaleTrunc(a, b, c) ==
    LET q == (a * c) \div b
    IN  IF (a * c) % b = 0 /\ q > 0 /\ a # b /\ a # 0 THEN {q - 1, q} ELSE {q}

\* The geometry without the .max(1.0) on the thumb height.
ScrollbarGeometryNoMax(content_height, view_height, track_height, offset) ==
    LET thumbs == F32ScaleTrunc(view_height, content_height, track_height)
        range == SaturatingSub(content_height, view_height)
    IN  UNION {
            LET movement == SaturatingSub(track_height, h)
                raw == IF range > 0 THEN F32ScaleTrunc(offset, range, movement) ELSE {0}
            IN  {[thumb |-> h, pos |-> Min(p, movement), track |-> track_height] : p \in raw}
          : h \in thumbs}

\* Lines 636-650: the set of (thumb height, thumb position) the build can draw.
ScrollbarGeometry(content_height, view_height, track_height, offset) ==
    LET thumbs == {Max(1, v) : v \in F32ScaleTrunc(view_height, content_height, track_height)}
        range == SaturatingSub(content_height, view_height)
    IN  UNION {
            LET movement == SaturatingSub(track_height, h)
                raw == IF range > 0 THEN F32ScaleTrunc(offset, range, movement) ELSE {0}
            IN  {[thumb |-> h, pos |-> Min(p, movement), track |-> track_height] : p \in raw}
          : h \in thumbs}

NoFrame ==
    [asked |-> 0, n |-> 0, rows |-> 0, lo |-> 0, hi |-> 0, slice |-> <<>>,
     bar |-> None, balances |-> None]

\* The frame draw_trades_table renders for the clamped offset; asked is the
\* offset it was called with.
RenderedFrame(asked, offset, visible, area_height, bar) ==
    LET n == Len(visible)
        visible_row_count == VisibleRowCount(area_height)
        shown == n # 0 /\ offset < n
        end_idx == Min(offset + visible_row_count, n)
    IN  [asked |-> asked, n |-> n, rows |-> visible_row_count,
         lo |-> IF shown THEN offset ELSE 0,
         hi |-> IF shown THEN end_idx ELSE 0,
         slice |-> IF shown THEN SubSeq(visible, offset + 1, end_idx) ELSE <<>>,
         bar |-> bar, balances |-> None]

\* The scrollbars the frame can show: none unless total > visible_row_count
\* and the track has a row.
FrameBars(offset, n, area_height) ==
    IF n > VisibleRowCount(area_height) /\ ScrollbarTrackHeight(area_height) > 0
    THEN {Some(g) : g \in ScrollbarGeometry(n, VisibleRowCount(area_height),
                                            ScrollbarTrackHeight(area_height), offset)}
    ELSE {None}

(***************************************************************************)
(* ui, the balances panel of an active search symbol.                      *)
(***************************************************************************)
\* filter_map over user_balances with coin_map.get(symbol), then the filter
\* balance != 0.0.
UserCoinBalances(balances, symbol) ==
    {[username |-> u, balance |-> balances[u][symbol]] :
        u \in {w \in DOMAIN balances :
                  symbol \in DOMAIN balances[w] /\ balances[w][symbol] # 0}}

\* sort_by(b.1.partial_cmp(a.1)): a stable sort of the HashMap's iteration
\* order, so every descending arrangement of the entries can come out.
SortedDescending(entries) ==
    LET n == Cardinality(entries)
    IN  {s \in [1..n -> entries] :
            /\ \A i, j \in 1..n : i # j => s[i] # s[j]
            /\ \A i \in 1..n : i < n => s[i].balance >= s[i + 1].balance}

\* The panels the frame can show: none without an active search symbol.
BalancePanels(balances, symbol) ==
    IF symbol = None THEN {None}
    ELSE {Some(s) : s \in SortedDescending(UserCoinBalances(balances, symbol[1]))}

(***************************************************************************)
(* Startup: main opens the store, loads it newest first (ORDER BY id DESC; *)
(* an error yields the empty list), spawns the producer and builds         *)
(* App::new(initial_trades).                                               *)
(***************************************************************************)
RECURSIVE Reverse(_)
Reverse(s) == IF s = <<>> THEN <<>> ELSE Append(Reverse(Tail(s)), Head(s))

LoadTradesFromDb(rows) == Reverse(rows)

InitApp(stores, heights) ==
    /\ db \in stores
    /\ loaded \in {LoadTradesFromDb(db), <<>>}
    /\ all_trades = loaded
    /\ user_balances = EmptyBalances
    /\ search_input = <<>>
    /\ active_search_symbol = None
    /\ scroll_offset = 0
    /\ trade_type_filter = None
    /\ input_mode = "Normal"
    /\ cursor_position = 0
    /\ chan = <<>>
    /\ tx_alive = TRUE
    /\ sent = <<>>
    /\ height \in heights
    /\ pc = "main"
    /\ frame = NoFrame

\* main, lines 345-348: recompute the balances and enter run_app.
Main ==
    /\ pc = "main"
    /\ user_balances' = RecalculateBalancesFromTrades(all_trades)
    /\ pc' = "recv"
    /\ UNCHANGED <<view_vars, all_trades, chan, tx_alive, db, height, frame,
                   sent, loaded, call, result>>

(***************************************************************************)
(* The producer thread.  Frames that carry no trade (ping, undecodable,    *)
(* no data object) change nothing and are not steps of the model.          *)
(***************************************************************************)
ProducerSend(feed, max_sent) ==
    /\ tx_alive
    /\ pc \notin {"done", "panicked"}
    /\ Len(sent) < max_sent
    /\ \E trade \in feed :
          /\ chan' = Append(chan, trade)
          /\ sent' = Append(sent, trade)
    /\ UNCHANGED <<app_vars, tx_alive, db, height, pc, frame, loaded, call, result>>

\* socket.read() fails, or tx.send fails because the receiver is gone: the
\* thread leaves its loop and drops the Sender.
ProducerStop ==
    /\ tx_alive
    /\ tx_alive' = FALSE
    /\ UNCHANGED <<app_vars, chan, db, height, pc, frame, sent, loaded, call, result>>

(***************************************************************************)
(* The terminal can be resized at any time.                                *)
(***************************************************************************)
Resize(heights) ==
    /\ pc \notin {"done", "panicked"}
    /\ \E h \in heights : h # height /\ height' = h
    /\ UNCHANGED <<app_vars, chan, tx_alive, db, pc, frame, sent, loaded, call, result>>

(***************************************************************************)
(* run_app, the head of the loop: rx.try_recv().                           *)
(***************************************************************************)
\* insert_trade_db either appends the row or fails; add_trade goes on.
InsertTradeDb(rows, trade, ok) == IF ok THEN Append(rows, trade) ELSE rows

AddTradeAppends(trades, trade) == Append(trades, trade)

\* all_trades.insert(0, trade)
AddTrade(trades, trade) == <<trade>> \o trades

\* rx.try_recv() on a channel that holds a message: the oldest one.
TryRecvNewest(queue) ==
    [trade |-> queue[Len(queue)], rest |-> SubSeq(queue, 1, Len(queue) - 1)]

TryRecv(queue) == [trade |-> Head(queue), rest |-> Tail(queue)]

\* An ingest that gives up when the store refuses the row.
RecvTradeStoreFirst(db_outcomes) ==
    /\ pc = "recv"
    /\ chan # <<>>
    /\ LET trade == TryRecv(chan).trade
           was_at_top == scroll_offset = 0
       IN  /\ chan' = TryRecv(chan).rest
           /\ \E ok \in db_outcomes :
                 /\ db' = InsertTradeDb(db, trade, ok)
                 /\ user_balances' = IF ok THEN ApplyDelta(user_balances, trade)
                                     ELSE user_balances
                 /\ all_trades' = IF ok THEN AddTrade(all_trades, trade)
                                  ELSE all_trades
           /\ scroll_offset' = IF ~was_at_top /\ input_mode = "Normal"
                               THEN scroll_offset + 1
                               ELSE scroll_offset
    /\ pc' = "draw"
    /\ UNCHANGED <<search_input, active_search_symbol, trade_type_filter,
                   input_mode, cursor_position, tx_alive, height, frame, sent,
                   loaded, call, result>>

RecvTrade(db_outcomes) ==
    /\ pc = "recv"
    /\ chan # <<>>
    /\ LET trade == TryRecv(chan).trade
           was_at_top == scroll_offset = 0
       IN  /\ chan' = TryRecv(chan).rest
           /\ \E ok \in db_outcomes : db' = InsertTradeDb(db, trade, ok)
           /\ user_balances' = ApplyDelta(user_balances, trade)
           /\ all_trades' = AddTrade(all_trades, trade)
           /\ scroll_offset' = IF ~was_at_top /\ input_mode = "Normal"
                               THEN scroll_offset + 1
                               ELSE scroll_offset
    /\ pc' = "draw"
    /\ UNCHANGED <<search_input, active_search_symbol, trade_type_filter,
                   input_mode, cursor_position, tx_alive, height, frame, sent,
                   loaded, call, result>>

RecvEmpty ==
    /\ pc = "recv"
    /\ chan = <<>>
    /\ tx_alive
    /\ pc' = "draw"
    /\ UNCHANGED <<app_vars, chan, tx_alive, db, height, frame, sent, loaded,
                   call, result>>

\* A loop that treats Disconnected like Empty and goes on to draw.
RecvDisconnectedGoesOn ==
    /\ pc = "recv"
    /\ chan = <<>>
    /\ ~tx_alive
    /\ pc' = "draw"
    /\ UNCHANGED <<app_vars, chan, tx_alive, db, height, frame, sent, loaded,
                   call, result>>

\* A loop that leaves as soon as the Sender is gone, messages queued or not.
RecvDisconnectedEarly ==
    /\ pc = "recv"
    /\ ~tx_alive
    /\ pc' = "done"
    /\ UNCHANGED <<app_vars, chan, tx_alive, db, height, frame, sent, loaded,
                   call, result>>

RecvDisconnected ==
    /\ pc = "recv"
    /\ chan = <<>>
    /\ ~tx_alive
    /\ pc' = "done"
    /\ UNCHANGED <<app_vars, chan, tx_alive, db, height, frame, sent, loaded,
                   call, result>>

(***************************************************************************)
(* terminal.draw(|f| ui(f, &mut app)).                                     *)
(***************************************************************************)
Draw ==
    /\ pc = "draw"
    /\ LET visible == GetVisibleTrades(all_trades, trade_type_filter,
                                       active_search_symbol)
           area_height == ContentAreaHeight(height)
           offset == ClampOffset(scroll_offset, Len(visible),
                                 VisibleRowCount(area_height))
       IN  /\ scroll_offset' = offset
           /\ \E bar \in FrameBars(offset, Len(visible), area_height),
                 panel \in BalancePanels(user_balances, active_search_symbol) :
                 frame' = [RenderedFrame(scroll_offset, offset, visible,
                                         area_height, bar)
                              EXCEPT !.balances = panel]
    /\ pc' = "poll"
    /\ UNCHANGED <<search_input, active_search_symbol, all_trades, user_balances,
                   trade_type_filter, input_mode, cursor_position, chan,
                   tx_alive, db, height, sent, loaded, call, result>>

(***************************************************************************)
(* run_app, the tail of the loop: event::poll(100 ms) and the key match.   *)
(* Every handler returns to the head of the loop, except quit.             *)
(***************************************************************************)
ledger_env == <<all_trades, user_balances, chan, tx_alive, db, height, frame,
                sent, loaded, call, result>>

\* No key within the timeout, an event that is no key, or a key with no arm.
PollNoKey ==
    /\ pc = "poll"
    /\ pc' = "recv"
    /\ UNCHANGED <<view_vars, ledger_env>>

NormalQuit ==
    /\ pc = "poll" /\ input_mode = "Normal"
    /\ pc' = "done"
    /\ UNCHANGED <<view_vars, ledger_env>>

NormalToggle ==
    /\ pc = "poll" /\ input_mode = "Normal"
    /\ trade_type_filter' = ToggleTradeTypeFilter(trade_type_filter)
    /\ scroll_offset' = 0
    /\ pc' = "recv"
    /\ UNCHANGED <<search_input, active_search_symbol, input_mode,
                   cursor_position, ledger_env>>

NormalEnterEdit ==
    /\ pc = "poll" /\ input_mode = "Normal"
    /\ input_mode' = "Editing"
    /\ pc' = "recv"
    /\ UNCHANGED <<search_input, active_search_symbol, scroll_offset,
                   trade_type_filter, cursor_position, ledger_env>>

NormalSubmit ==
    /\ pc = "poll" /\ input_mode = "Normal"
    /\ active_search_symbol' = SubmitSearch(search_input)
    /\ scroll_offset' = 0
    /\ pc' = "recv"
    /\ UNCHANGED <<search_input, trade_type_filter, input_mode,
                   cursor_position, ledger_env>>

NormalUp ==
    /\ pc = "poll" /\ input_mode = "Normal"
    /\ scroll_offset' = ScrollUp(scroll_offset)
    /\ pc' = "recv"
    /\ UNCHANGED <<search_input, active_search_symbol, trade_type_filter,
                   input_mode, cursor_position, ledger_env>>

\* app.scroll_down(visible_trade_area_height)
AppScrollDown(offset) ==
    ScrollDown(offset,
               Len(GetVisibleTrades(all_trades, trade_type_filter,
                                    active_search_symbol)),
               KeyVisibleHeight(height))

\* for _ in 0..10 { app.scroll_down(visible_trade_area_height); }
RECURSIVE AppScrollDownTimes(_, _)
AppScrollDownTimes(n, offset) ==
    IF n = 0 THEN offset ELSE AppScrollDownTimes(n - 1, AppScrollDown(offset))

NormalDown ==
    /\ pc = "poll" /\ input_mode = "Normal"
    /\ scroll_offset' = AppScrollDown(scroll_offset)
    /\ pc' = "recv"
    /\ UNCHANGED <<search_input, active_search_symbol, trade_type_filter,
                   input_mode, cursor_position, ledger_env>>

NormalPageUp ==
    /\ pc = "poll" /\ input_mode = "Normal"
    /\ scroll_offset' = ScrollUpTimes(PageStep, scroll_offset)
    /\ pc' = "recv"
    /\ UNCHANGED <<search_input, active_search_symbol, trade_type_filter,
                   input_mode, cursor_position, ledger_env>>

NormalPageDown ==
    /\ pc = "poll" /\ input_mode = "Normal"
    /\ scroll_offset' = AppScrollDownTimes(PageStep, scroll_offset)
    /\ pc' = "recv"
    /\ UNCHANGED <<search_input, active_search_symbol, trade_type_filter,
                   input_mode, cursor_position, ledger_env>>

EditSubmit ==
    /\ pc = "poll" /\ input_mode = "Editing"
    /\ active_search_symbol' = SubmitSearch(search_input)
    /\ scroll_offset' = 0
    /\ input_mode' = "Normal"
    /\ pc' = "recv"
    /\ UNCHANGED <<search_input, trade_type_filter, cursor_position, ledger_env>>

\* enter_char: String::insert, then move_cursor_right on the new buffer.
EditChar(typed, max_input) ==
    /\ pc = "poll" /\ input_mode = "Editing"
    /\ Len(search_input) < max_input
    /\ \E c \in typed :
          IF InsertPanics(search_input, cursor_position)
          THEN /\ pc' = "panicked"
               /\ UNCHANGED <<search_input, cursor_position>>
          ELSE /\ search_input' = StringInsert(search_input, cursor_position, c)
               /\ cursor_position' = MoveCursorRight(cursor_position, search_input')
               /\ pc' = "recv"
    /\ UNCHANGED <<active_search_symbol, scroll_offset, trade_type_filter,
                   input_mode, ledger_env>>

\* delete_char: String::remove(cursor_position - 1), then move_cursor_left.
EditBackspace ==
    /\ pc = "poll" /\ input_mode = "Editing"
    /\ IF cursor_position > 0 /\ search_input # <<>>
       THEN IF RemovePanics(search_input, cursor_position - 1)
            THEN /\ pc' = "panicked"
                 /\ UNCHANGED <<search_input, cursor_position>>
            ELSE /\ search_input' = StringRemove(search_input, cursor_position - 1)
                 /\ cursor_position' = MoveCursorLeft(cursor_position)
                 /\ pc' = "recv"
       ELSE /\ pc' = "recv"
            /\ UNCHANGED <<search_input, cursor_position>>
    /\ UNCHANGED <<active_search_symbol, scroll_offset, trade_type_filter,
                   input_mode, ledger_env>>

EditLeft ==
    /\ pc = "poll" /\ input_mode = "Editing"
    /\ cursor_position' = MoveCursorLeft(cursor_position)
    /\ pc' = "recv"
    /\ UNCHANGED <<search_input, active_search_symbol, scroll_offset,
                   trade_type_filter, input_mode, ledger_env>>

EditRight ==
    /\ pc = "poll" /\ input_mode = "Editing"
    /\ cursor_position' = MoveCursorRight(cursor_position, search_input)
    /\ pc' = "recv"
    /\ UNCHANGED <<search_input, active_search_symbol, scroll_offset,
                   trade_type_filter, input_mode, ledger_env>>

\* A cancel that throws the edit away.
EditEscClears ==
    /\ pc = "poll" /\ input_mode = "Editing"
    /\ input_mode' = "Normal"
    /\ search_input' = <<>>
    /\ cursor_position' = 0
    /\ pc' = "recv"
    /\ UNCHANGED <<active_search_symbol, scroll_offset, trade_type_filter,
                   ledger_env>>

\* A cancel that also clears the scroll position.
EditEscResets ==
    /\ pc = "poll" /\ input_mode = "Editing"
    /\ input_mode' = "Normal"
    /\ scroll_offset' = 0
    /\ pc' = "recv"
    /\ UNCHANGED <<search_input, active_search_symbol, trade_type_filter,
                   cursor_position, ledger_env>>

EditEsc ==
    /\ pc = "poll" /\ input_mode = "Editing"
    /\ input_mode' = "Normal"
    /\ pc' = "recv"
    /\ UNCHANGED <<search_input, active_search_symbol, scroll_offset,
                   trade_type_filter, cursor_position, ledger_env>>

EditHome ==
    /\ pc = "poll" /\ input_mode = "Editing"
    /\ cursor_position' = 0
    /\ pc' = "recv"
    /\ UNCHANGED <<search_input, active_search_symbol, scroll_offset,
                   trade_type_filter, input_mode, ledger_env>>

EditEnd ==
    /\ pc = "poll" /\ input_mode = "Editing"
    /\ cursor_position' = ByteLen(search_input)
    /\ pc' = "recv"
    /\ UNCHANGED <<search_input, active_search_symbol, scroll_offset,
                   trade_type_filter, input_mode, ledger_env>>

(***************************************************************************)
(* Inputs of the model.                                                    *)
(***************************************************************************)
Trade(tt, action, user, amount, coin) ==
    [trade_type_val |-> tt, action |-> action, username |-> user,
     amount |-> amount, coin_symbol |-> coin]

\* The stores main can find at startup: empty, or one row.
StoresOf(feed) == {<<>>} \cup {<<trade>> : trade \in feed}

\* The largest amount whose sum with 1 is no longer representable.
BigAmount == Pow2(MantBits)

(***************************************************************************)
(* Spec: the whole engine, every operation, over a two-trade feed.         *)
(***************************************************************************)
MaxSent == 2

MaxInput == 1

Feed == {Trade("all-trades", "BUY", "alice", 1, <<"b">>),
         Trade("live-trade", "SELL", "bob", 1, <<"t">>)}

Heights == {7, 10}

Typed == {"t"}

Init == InitApp(StoresOf(Feed), Heights) /\ call = None /\ result = None

Next ==
    \/ Main
    \/ ProducerSend(Feed, MaxSent)
    \/ ProducerStop
    \/ Resize(Heights)
    \/ RecvTrade({TRUE})
    \/ RecvEmpty
    \/ RecvDisconnected
    \/ Draw
    \/ PollNoKey
    \/ NormalQuit
    \/ NormalToggle
    \/ NormalEnterEdit
    \/ NormalSubmit
    \/ NormalUp
    \/ NormalDown
    \/ NormalPageUp
    \/ NormalPageDown
    \/ EditSubmit
    \/ EditChar(Typed, MaxInput)
    \/ EditBackspace
    \/ EditLeft
    \/ EditRight
    \/ EditEsc
    \/ EditHome
    \/ EditEnd

Spec == Init /\ [][Next]_vars

(***************************************************************************)
(* SpecLedger: ingestion alone (no key is pressed but quit), over trades   *)
(* of several users, coins, actions and amounts.                           *)
(***************************************************************************)
MaxLedgerSent == 2

LedgerFeed ==
    {Trade("live-trade", "BUY", "alice", 1, <<"b">>),
     Trade("live-trade", "BUY", "alice", BigAmount, <<"b">>),
     Trade("live-trade", "SELL", "alice", 1, <<"b">>),
     Trade("live-trade", "TRANSFER", "alice", 1, <<"B">>),
     Trade("live-trade", "BUY", "bob", 1, <<"b">>)}

LedgerHeights == {10}

InitLedger ==
    InitApp(StoresOf(LedgerFeed), LedgerHeights) /\ call = None /\ result = None

NextLedger ==
    \/ Main
    \/ ProducerSend(LedgerFeed, MaxLedgerSent)
    \/ ProducerStop
    \/ RecvTrade({TRUE, FALSE})
    \/ RecvEmpty
    \/ RecvDisconnected
    \/ Draw
    \/ PollNoKey
    \/ NormalQuit

SpecLedger == InitLedger /\ [][NextLedger]_vars

(***************************************************************************)
(* Vocabulary of the properties.                                           *)
(***************************************************************************)
Usernames == {"alice", "bob"}

CoinSymbols == {<<"b">>, <<"B">>, <<"t">>}

\* balances[u][a], an absent entry counting as 0.
Balance(u, a) ==
    IF u \in DOMAIN user_balances /\ a \in DOMAIN user_balances[u]
    THEN user_balances[u][a]
    ELSE 0

\* The number of trades taken from the channel so far.
Ingested == Len(sent) - Len(chan)

Running == pc \in {"recv", "draw", "poll"}

Started == pc # "main"

\* Sum of amount over the Buy trades of (u, a) minus the sum over its Sell
\* trades, in exact arithmetic.
RECURSIVE ExactNet(_, _, _)
ExactNet(trades, u, a) ==
    IF trades = <<>> THEN 0
    ELSE LET t == Head(trades)
             mine == t.username = u /\ t.coin_symbol = a
         IN  ExactNet(Tail(trades), u, a)
               + (IF mine /\ t.action = "BUY" THEN t.amount
                  ELSE IF mine /\ t.action = "SELL" THEN 0 - t.amount
                  ELSE 0)

\* The same quantity accumulated in f64, oldest trade (the last of the
\* newest-first log) first.
RECURSIVE FloatNet(_, _, _)
FloatNet(trades, u, a) ==
    IF trades = <<>> THEN 0
    ELSE LET t == Head(trades)
             mine == t.username = u /\ t.coin_symbol = a
             older == FloatNet(Tail(trades), u, a)
         IN  IF mine /\ t.action = "BUY" THEN FAdd(older, t.amount)
             ELSE IF mine /\ t.action = "SELL" THEN FSub(older, t.amount)
             ELSE older

\* No accumulation step over the log had to round.
RECURSIVE NoRounding(_, _, _)
NoRounding(trades, u, a) ==
    \/ trades = <<>>
    \/ /\ NoRounding(Tail(trades), u, a)
       /\ FloatNet(trades, u, a) = ExactNet(trades, u, a)

(***************************************************************************)
(* C1 (as stated): once main has recomputed the balances, and after any    *)
(* sequence of ingests, balances[u][a] (absent = 0) equals the sum of the  *)
(* Buy amounts of (u, a) in the log minus the sum of its Sell amounts.     *)
(* Violated: the balance is an f64 accumulated trade by trade, and a sum   *)
(* that is not representable is rounded.                                   *)
(***************************************************************************)
C1_BalanceIsExactSum ==
    Started =>
        \A u \in Usernames, a \in CoinSymbols :
            Balance(u, a) = ExactNet(all_trades, u, a)

(***************************************************************************)
(* C1 (amended): balances[u][a] (absent = 0) equals the f64 accumulation,  *)
(* oldest trade first, of +amount for each Buy and -amount for each Sell   *)
(* of (u, a) in the log; it equals the exact sum whenever no step of that  *)
(* accumulation rounds.                                                    *)
(***************************************************************************)
C1_BalanceIsFloatFold ==
    Started =>
        \A u \in Usernames, a \in CoinSymbols :
            /\ Balance(u, a) = FloatNet(all_trades, u, a)
            /\ NoRounding(all_trades, u, a) =>
                  Balance(u, a) = ExactNet(all_trades, u, a)

\* A trade was ingested on top of a loaded one, and a balance was rounded.
C1_Witness ==
    /\ Started
    /\ Ingested >= 1
    /\ loaded # <<>>
    /\ Balance("alice", <<"b">>) # ExactNet(all_trades, "alice", <<"b">>)
    /\ Balance("bob", <<"b">>) = ExactNet(all_trades, "bob", <<"b">>)
    /\ Balance("bob", <<"b">>) > 0

(***************************************************************************)
(* C2: on every state reached by main's recompute followed by incremental  *)
(* ingests, recalculate_balances_from_trades over the log yields exactly   *)
(* the balances map the engine holds: same keys, same f64 quantities.      *)
(***************************************************************************)
C2_RecomputeIsNoOp ==
    Started => RecalculateBalancesFromTrades(all_trades) = user_balances

\* Two trades were ingested and the replay order matters for the result.
C2_Witness ==
    /\ Started
    /\ Ingested >= 2
    /\ RecalculateNewestFirst(all_trades) # user_balances

(***************************************************************************)
(* C3: the log is append-only and newest-first.  Every step of the engine  *)
(* (recompute, ingest, filter toggle, search commit, scrolling, rendering, *)
(* editing) either leaves the log as it is or is an ingest that puts the   *)
(* received trade in front of the unchanged log; so ingesting T1, T2, T3   *)
(* onto L gives [T3, T2, T1] followed by L.                                *)
(***************************************************************************)
C3_LogAppendOnly ==
    [][\/ all_trades' = all_trades
       \/ /\ pc = "recv"
          /\ chan # <<>>
          /\ all_trades' = <<Head(chan)>> \o all_trades]_vars

\* Two different trades were ingested onto a loaded log, and the user has
\* toggled the filter, committed a search and scrolled.
C3_Witness ==
    /\ Ingested = 2
    /\ loaded # <<>>
    /\ sent[1] # sent[2]
    /\ all_trades = <<sent[2], sent[1]>> \o loaded
    /\ trade_type_filter # None
    /\ active_search_symbol # None
    /\ frame.n > 0

(***************************************************************************)
(* C4: trades reach the ledger in the order the producer enqueued them.    *)
(* The entries ingested from the channel, read newest-first, are the       *)
(* reverse of a prefix of the enqueue sequence, and the channel holds the  *)
(* rest of it, in order: nothing is reordered, duplicated or skipped.      *)
(***************************************************************************)
C4_DeliveredInOrder ==
    /\ Ingested \in 0..Len(sent)
    /\ chan = SubSeq(sent, Ingested + 1, Len(sent))
    /\ all_trades = Reverse(SubSeq(sent, 1, Ingested)) \o loaded

\* Two different trades were enqueued before the consumer took the first,
\* and both have been ingested, one per loop iteration.
C4_Witness ==
    /\ Len(sent) = 2
    /\ sent[1] # sent[2]
    /\ Ingested = 2
    /\ loaded # <<>>
    /\ pc = "poll"

(***************************************************************************)
(* SpecView: the View Compiler under type tags and coin symbols that differ *)
(* in case; the user toggles the filter and types and commits symbols.     *)
(***************************************************************************)
MaxViewSent == 2

MaxViewInput == 2

ViewFeed ==
    {Trade("all-trades", "BUY", "alice", 1, <<"b", "t">>),
     Trade("ALL-TRADES", "SELL", "alice", 1, <<"B", "t">>),
     Trade("live-trade", "BUY", "bob", 1, <<"B", "T">>),
     Trade("live-trade", "BUY", "bob", 1, <<"t">>)}

ViewTyped == {"b", "t"}

ViewHeights == {10}

InitView ==
    InitApp(StoresOf(ViewFeed), ViewHeights) /\ call = None /\ result = None

NextView ==
    \/ Main
    \/ ProducerSend(ViewFeed, MaxViewSent)
    \/ RecvTrade({TRUE})
    \/ RecvEmpty
    \/ Draw
    \/ PollNoKey
    \/ NormalToggle
    \/ NormalEnterEdit
    \/ EditChar(ViewTyped, MaxViewInput)
    \/ EditSubmit

SpecView == InitView /\ [][NextView]_vars

Visible == GetVisibleTrades(all_trades, trade_type_filter, active_search_symbol)

\* The two predicates of the View Compiler, as the claim states them.
C5_Keep(trade) ==
    /\ \/ trade_type_filter = None
       \/ \E tag \in {"all-trades", "live-trade"} :
             /\ trade_type_filter = Some(tag)
             /\ ToLowercaseTag(trade.trade_type_val) = tag
    /\ \/ active_search_symbol = None
       \/ active_search_symbol = Some(ToUppercase(trade.coin_symbol))

(***************************************************************************)
(* C5: get_visible_trades returns exactly the subsequence of the log, in   *)
(* log order, of the trades with (1) type_filter none or trade_type equal  *)
(* to it case-insensitively and (2) active_search_symbol none or equal to  *)
(* the upper-cased coin_symbol; with "BT" committed, the trades of coins   *)
(* "bt", "Bt" and "BT" that pass the type filter are all visible.          *)
(***************************************************************************)
C5_VisibleIsFilteredLog ==
    /\ Visible = SelectSeq(all_trades, C5_Keep)
    /\ active_search_symbol = Some(<<"B", "T">>) =>
          \A i \in 1..Len(all_trades) :
              /\ all_trades[i].coin_symbol \in {<<"b", "t">>, <<"B", "t">>, <<"B", "T">>}
              /\ trade_type_filter = None
              => \E j \in 1..Len(Visible) : Visible[j] = all_trades[i]

\* "BT" is committed, the filter is the all-trades tag, and the log holds a
\* visible "bt" trade, a hidden trade and a visible "Bt" trade of tag
\* ALL-TRADES, in that order.
C5_Witness ==
    /\ active_search_symbol = Some(<<"B", "T">>)
    /\ trade_type_filter = Some("all-trades")
    /\ Len(all_trades) = 3
    /\ Len(Visible) = 2
    /\ Visible[1] = all_trades[1]
    /\ Visible[2] = all_trades[3]
    /\ Visible[1].coin_symbol = <<"b", "t">>
    /\ Visible[2].coin_symbol = <<"B", "t">>
    /\ Visible[2].trade_type_val = "ALL-TRADES"

(***************************************************************************)
(* C6: after the clamping pass of a render, whatever offset came in,       *)
(* 0 <= scroll_offset <= max(0, N-1), and scroll_offset <= N - rows when   *)
(* N > rows (N the length of the visible sequence, rows the render's       *)
(* visible_row_count); the rendered slice is                               *)
(* [offset, offset + min(rows, N - offset)) and lies inside the sequence.  *)
(***************************************************************************)
C6_OffsetClampedAfterDraw ==
    pc = "poll" =>
        /\ frame.n = Len(Visible)
        /\ 0 <= scroll_offset
        /\ scroll_offset <= Max(0, frame.n - 1)
        /\ frame.n > frame.rows => scroll_offset <= frame.n - frame.rows
        /\ frame.lo = scroll_offset
        /\ frame.hi = scroll_offset + Min(frame.rows, frame.n - scroll_offset)
        /\ frame.hi <= frame.n
        /\ frame.slice = SubSeq(Visible, frame.lo + 1, frame.hi)

\* A render whose clamping pass lowered the offset it was handed so that
\* the last row stayed in view.
C6_Witness ==
    /\ pc = "poll"
    /\ frame.rows > 0
    /\ frame.n > frame.rows
    /\ frame.asked > scroll_offset
    /\ scroll_offset = frame.n - frame.rows
    /\ frame.hi = frame.n

(***************************************************************************)
(* C7: scroll-down never leaves the offset past N - visible_row_count:     *)
(* whenever the Down key is handled with N > visible_row_count visible     *)
(* trades and an offset in [0, N-1], the offset after it is at most        *)
(* N - visible_row_count (visible_row_count as handed to scroll_down).     *)
(***************************************************************************)
C7_ScrollDownStaysInRange ==
    [][NormalDown /\ Len(Visible) > KeyVisibleHeight(height)
                  /\ scroll_offset \in 0..(Len(Visible) - 1)
       => scroll_offset' <= Len(Visible) - KeyVisibleHeight(height)]_vars

(***************************************************************************)
(* C10: every step that changes the type filter is taken in Normal mode,   *)
(* follows the table none -> all-trades, all-trades -> live-trade,         *)
(* live-trade -> all-trades, sets scroll_offset to 0 and changes nothing   *)
(* else of the view state or the ledger; the toggle key always is such a   *)
(* step.                                                                   *)
(***************************************************************************)
C10_ToggleTable ==
    [][/\ trade_type_filter' # trade_type_filter =>
             /\ pc = "poll"
             /\ input_mode = "Normal"
             /\ \/ trade_type_filter = None /\ trade_type_filter' = Some("all-trades")
                \/ /\ trade_type_filter = Some("all-trades")
                   /\ trade_type_filter' = Some("live-trade")
                \/ /\ trade_type_filter = Some("live-trade")
                   /\ trade_type_filter' = Some("all-trades")
             /\ scroll_offset' = 0
             /\ UNCHANGED <<search_input, active_search_symbol, input_mode,
                            cursor_position, all_trades, user_balances, db>>
       /\ NormalToggle => trade_type_filter' # trade_type_filter]_vars

\* The filter went from live-trade (under which the frame on screen was
\* drawn, scrolled down) to all-trades, and the offset is 0.
C10_Witness ==
    /\ trade_type_filter = Some("all-trades")
    /\ pc = "recv"
    /\ scroll_offset = 0
    /\ frame.lo > 0
    /\ \A i \in 1..Len(frame.slice) : frame.slice[i].trade_type_val = "live-trade"
    /\ active_search_symbol = None

(***************************************************************************)
(* SpecBar: the scrollbar geometry of draw_trades_table applied on its own *)
(* to every content height, view height, track height and clamped offset   *)
(* within the bounds.                                                      *)
(***************************************************************************)
MaxBarRows == 6

MaxBarTrack == 5

BarCalls ==
    {[n |-> n, rows |-> rows, track |-> track, offset |-> offset] :
        n \in 1..MaxBarRows, rows \in 0..MaxBarRows,
        track \in 1..MaxBarTrack, offset \in 0..MaxBarRows}

\* The scrollbar is drawn (n > rows) and the offset is a clamped one.
BarCallValid(c) ==
    /\ c.n > c.rows
    /\ c.offset = ClampOffset(c.offset, c.n, c.rows)

InitBar ==
    /\ InitApp({<<>>}, Heights)
    /\ call \in {Some(c) : c \in {d \in BarCalls : BarCallValid(d)}}
    /\ result = None

ApplyScrollbar ==
    /\ call # None
    /\ result = None
    /\ \E g \in ScrollbarGeometry(call[1].n, call[1].rows, call[1].track,
                                  call[1].offset) :
          result' = Some(g)
    /\ UNCHANGED <<app_vars, chan, tx_alive, db, height, pc, frame, sent,
                   loaded, call>>

NextBar == ApplyScrollbar

SpecBar == InitBar /\ [][NextBar]_vars

(***************************************************************************)
(* C8: whenever the scrollbar is rendered (N > visible_row_count, track    *)
(* height T >= 1), for every clamped offset, the thumb height h is at      *)
(* least 1 and the thumb position p satisfies 0 <= p and p + h <= T.       *)
(***************************************************************************)
C8_ThumbWithinTrack ==
    result # None =>
        /\ result[1].track = call[1].track
        /\ result[1].thumb >= 1
        /\ result[1].pos >= 0
        /\ result[1].pos + result[1].thumb <= result[1].track

\* The view is so small a part of the content that the thumb height comes
\* from the minimum of 1, and the offset is the last one: the thumb sits at
\* the bottom of the track.
C8_Witness ==
    /\ result # None
    /\ call[1].rows > 0
    /\ call[1].rows * call[1].track < call[1].n
    /\ call[1].offset = call[1].n - call[1].rows
    /\ result[1].thumb = 1
    /\ result[1].pos > 0
    /\ result[1].pos + result[1].thumb = result[1].track

(***************************************************************************)
(* SpecEdit: the Input/Edit state machine with every editing key, over a   *)
(* buffer of letters and spaces; one kind of trade, so that the view can   *)
(* be scrolled.                                                            *)
(***************************************************************************)
MaxEditSent == 1

MaxEditInput == 2

EditFeed == {Trade("live-trade", "BUY", "alice", 1, <<"b">>)}

EditTyped == {"b", " ", "e_acute"}

EditHeights == {10}

InitEdit ==
    InitApp(StoresOf(EditFeed), EditHeights) /\ call = None /\ result = None

NextEdit ==
    \/ Main
    \/ ProducerSend(EditFeed, MaxEditSent)
    \/ RecvTrade({TRUE})
    \/ RecvEmpty
    \/ Draw
    \/ PollNoKey
    \/ NormalEnterEdit
    \/ NormalSubmit
    \/ NormalDown
    \/ EditSubmit
    \/ EditChar(EditTyped, MaxEditInput)
    \/ EditBackspace
    \/ EditLeft
    \/ EditRight
    \/ EditEsc
    \/ EditHome
    \/ EditEnd

SpecEdit == InitEdit /\ [][NextEdit]_vars

(***************************************************************************)
(* C9: a search commit (the submit key in Normal or in Editing mode) sets  *)
(* active_search_symbol to none when the buffer is empty, whatever was     *)
(* active before, and otherwise to the whole buffer upper-cased character  *)
(* by character, nothing trimmed; it sets scroll_offset to 0 and leaves    *)
(* the buffer and cursor_position unchanged.                               *)
(***************************************************************************)
C9_CommitRule ==
    [][NormalSubmit \/ EditSubmit =>
          /\ search_input = <<>> => active_search_symbol' = None
          /\ search_input # <<>> =>
                /\ active_search_symbol' # None
                /\ Len(active_search_symbol'[1]) = Len(search_input)
                /\ \A i \in 1..Len(search_input) :
                      active_search_symbol'[1][i] = UpperChar(search_input[i])
          /\ scroll_offset' = 0
          /\ UNCHANGED <<search_input, cursor_position>>]_vars

\* " b" was committed as " B" while the frame on screen was scrolled down:
\* the offset is back to 0, buffer and cursor are as typed.
C9_Witness ==
    /\ pc = "recv"
    /\ input_mode = "Normal"
    /\ search_input = <<" ", "b">>
    /\ cursor_position = 2
    /\ active_search_symbol = Some(<<" ", "B">>)
    /\ scroll_offset = 0
    /\ frame.lo = 1

(***************************************************************************)
(* Disconnection.  drain is the step the consumer takes from the head of   *)
(* its loop (rx.try_recv); the producer is gone once it dropped the Sender.*)
(***************************************************************************)
DrainAttempt == pc = "recv" /\ pc' # pc

LoopEnds == pc \notin {"done", "panicked"} /\ pc' = "done"

(***************************************************************************)
(* C11: once the producer has dropped the Sender and the queue is empty,   *)
(* the next drain attempt of the consumer ends the loop, leaving the       *)
(* engine state as it is, whatever the input mode (no quit key is needed). *)
(***************************************************************************)
C11_DisconnectEndsLoop ==
    [][(DrainAttempt /\ ~tx_alive /\ chan = <<>>)
          => (pc' = "done" /\ UNCHANGED app_vars)]_vars

\* The loop has ended in Editing mode, where no key quits: the producer
\* was gone and the queue drained.
C11_Witness ==
    /\ pc = "done"
    /\ input_mode = "Editing"
    /\ ~tx_alive
    /\ chan = <<>>
    /\ Len(all_trades) > Len(loaded)

(***************************************************************************)
(* C12 as stated: after the producer disconnects, the loop ends only by    *)
(* the quit key, that is from the key match in Normal mode.                *)
(***************************************************************************)
C12_RunsUntilQuit ==
    [][(LoopEnds /\ ~tx_alive) => (pc = "poll" /\ input_mode = "Normal")]_vars

(***************************************************************************)
(* C12, amended: after the producer disconnects, the consumer keeps        *)
(* running while trades remain queued: a drain attempt on a non-empty      *)
(* queue ingests the oldest queued trade and goes on to draw, and the loop *)
(* ends only by the quit key or by a drain attempt that finds the queue    *)
(* empty.                                                                  *)
(***************************************************************************)
C12_RunsWhileQueued ==
    [][/\ (DrainAttempt /\ ~tx_alive /\ chan # <<>>)
            => /\ pc' = "draw"
               /\ all_trades' = <<Head(chan)>> \o all_trades
               /\ chan' = Tail(chan)
       /\ (LoopEnds /\ ~tx_alive)
            => \/ pc = "poll" /\ input_mode = "Normal"
               \/ pc = "recv" /\ chan = <<>>]_vars

\* The producer is gone, a trade is still queued, and the consumer has drawn
\* a frame that shows a trade it ingested after the load.
C12_Witness ==
    /\ ~tx_alive
    /\ chan # <<>>
    /\ pc = "poll"
    /\ Len(all_trades) > Len(loaded)
    /\ frame.slice # <<>>

(***************************************************************************)
(* The transitions of the Input/Edit state machine, as steps of Spec.      *)
(***************************************************************************)
SearchCommit == NormalSubmit \/ EditSubmit

OtherTableTransition ==
    \/ NormalEnterEdit
    \/ NormalQuit
    \/ EditChar(Typed, MaxInput)
    \/ EditBackspace
    \/ EditLeft
    \/ EditRight
    \/ EditHome
    \/ EditEnd
    \/ EditEsc

(***************************************************************************)
(* C13 as stated: of the transitions of the state machine, every one but   *)
(* a search commit leaves scroll_offset unchanged (the filter toggle       *)
(* included).                                                              *)
(***************************************************************************)
C13_OnlyCommitResets ==
    [][(NormalToggle \/ OtherTableTransition)
          => scroll_offset' = scroll_offset]_vars

(***************************************************************************)
(* C13, amended: a search commit and a type-filter toggle set              *)
(* scroll_offset to 0; every other transition of the state machine leaves  *)
(* scroll_offset unchanged.                                                *)
(***************************************************************************)
C13_CommitAndToggleReset ==
    [][/\ (SearchCommit \/ NormalToggle) => scroll_offset' = 0
       /\ OtherTableTransition => scroll_offset' = scroll_offset]_vars

\* A toggle has just cleared a positive offset: the last frame was drawn at
\* offset > 0 under another type filter, and the key handler has returned.
C13_Witness ==
    /\ pc = "recv"
    /\ frame.asked > 0
    /\ scroll_offset = 0
    /\ trade_type_filter # None
    /\ \E i \in 1..Len(frame.slice) :
          ~TypeMatches(frame.slice[i], trade_type_filter)

(***************************************************************************)
(* C14: in every reachable state, 0 <= cursor_position <= the length of    *)
(* the search buffer (String::len, the unit cursor_position counts in).    *)
(***************************************************************************)
C14_CursorInBuffer ==
    /\ cursor_position >= 0
    /\ cursor_position <= ByteLen(search_input)

\* After typing, moving and deleting, the cursor sits strictly inside a
\* buffer that the user then committed.
C14_Witness ==
    /\ input_mode = "Normal"
    /\ active_search_symbol # None
    /\ Len(search_input) = 2
    /\ cursor_position > 0
    /\ cursor_position < ByteLen(search_input)

(***************************************************************************)
(* Ingest steps: the consumer takes a trade from the head of the queue.    *)
(***************************************************************************)
IngestStep == DrainAttempt /\ chan # <<>>

\* b[u][a], an absent entry counting as 0.
BalanceIn(b, u, a) ==
    IF u \in DOMAIN b /\ a \in DOMAIN b[u] THEN b[u][a] ELSE 0

(***************************************************************************)
(* C15: ingesting a trade whose action is neither "BUY" nor "SELL" puts    *)
(* the trade in front of the log and changes the balance of no user/asset  *)
(* pair, an absent pair counting as 0.                                     *)
(***************************************************************************)
C15_OtherActionMovesNoBalance ==
    [][(IngestStep /\ Head(chan).action \notin {"BUY", "SELL"})
          => /\ all_trades' = <<Head(chan)>> \o all_trades
             /\ \A u \in Usernames, a \in CoinSymbols :
                   BalanceIn(user_balances', u, a) = BalanceIn(user_balances, u, a)]_vars

\* A TRANSFER of alice was ingested on top of a purchase of hers: it heads
\* the log, and her entry for its symbol exists with quantity 0.
C15_Witness ==
    /\ pc = "draw"
    /\ Len(all_trades) >= 2
    /\ Len(all_trades) > Len(loaded)
    /\ all_trades[1].action = "TRANSFER"
    /\ all_trades[2].action = "BUY"
    /\ "alice" \in DOMAIN user_balances
    /\ <<"B">> \in DOMAIN user_balances["alice"]
    /\ Balance("alice", <<"B">>) = 0
    /\ Balance("alice", <<"b">>) > 0

(***************************************************************************)
(* C16: an ingest during which the store refuses the row (the store is     *)
(* left as it was) gives the log and the balances exactly the values of a  *)
(* successful ingest, and the loop goes on to draw and to later ingests.   *)
(***************************************************************************)
C16_StoreFailureIsNotFatal ==
    [][(IngestStep /\ db' = db)
          => /\ all_trades' = AddTrade(all_trades, Head(chan))
             /\ user_balances' = ApplyDelta(user_balances, Head(chan))
             /\ chan' = Tail(chan)
             /\ pc' = "draw"]_vars

\* The store refused both rows (it is still empty) and both trades are in
\* the log and in the balances; the loop is running.
C16_Witness ==
    /\ pc = "poll"
    /\ Ingested = 2
    /\ db = <<>>
    /\ Len(all_trades) = Len(loaded) + 2
    /\ user_balances = RecalculateBalancesFromTrades(all_trades)
    /\ user_balances # EmptyBalances

(***************************************************************************)
(* SpecScroll: scrolling over a store of several rows while trades of both *)
(* types arrive, at two terminal heights.                                  *)
(***************************************************************************)
MaxScrollSent == 2

MaxScrollStored == 4

\* The rows main finds in the store: purchases of alice, told apart by amount.
ScrollStore ==
    [i \in 1..MaxScrollStored |-> Trade("live-trade", "BUY", "alice", i, <<"b">>)]

ScrollFeed ==
    {Trade("live-trade", "SELL", "bob", 1, <<"b">>),
     Trade("all-trades", "BUY", "bob", 2, <<"b">>)}

ScrollHeights == {9, 12}

InitScroll ==
    InitApp({ScrollStore}, ScrollHeights) /\ call = None /\ result = None

NextScroll ==
    \/ Main
    \/ ProducerSend(ScrollFeed, MaxScrollSent)
    \/ Resize(ScrollHeights)
    \/ RecvTrade({TRUE})
    \/ RecvEmpty
    \/ Draw
    \/ PollNoKey
    \/ NormalToggle
    \/ NormalUp
    \/ NormalDown
    \/ NormalPageUp
    \/ NormalPageDown

SpecScroll == InitScroll /\ [][NextScroll]_vars

\* The rows draw_trades_table shows for a log, the filters, an offset and a
\* terminal height: the slice of the frame Draw renders.
SliceShown(trades, type_filter, symbol, offset, h) ==
    LET visible == GetVisibleTrades(trades, type_filter, symbol)
        area_height == ContentAreaHeight(h)
        clamped == ClampOffset(offset, Len(visible), VisibleRowCount(area_height))
    IN  RenderedFrame(offset, clamped, visible, area_height, None).slice

(***************************************************************************)
(* C17: an ingest at scroll_offset > 0 in Normal mode advances the offset  *)
(* by one and the next frame shows the same trade records as a frame drawn *)
(* just before the ingest would, whatever the type filter and the search   *)
(* symbol (the terminal height, hence visible_row_count, being unchanged). *)
(***************************************************************************)
C17_ViewedRowsDoNotShift ==
    [][(IngestStep /\ scroll_offset > 0 /\ input_mode = "Normal")
          => /\ scroll_offset' = scroll_offset + 1
             /\ SliceShown(all_trades', trade_type_filter, active_search_symbol,
                           scroll_offset', height)
                  = SliceShown(all_trades, trade_type_filter, active_search_symbol,
                               scroll_offset, height)]_vars

\* The offset a scroll-down key leaves, as the claim C18 states it.
ScrollDownAsStated(offset, n, v) ==
    IF n > v /\ offset < n - v THEN offset + 1
    ELSE IF 0 < n /\ n <= v /\ offset < n - 1 THEN offset + 1
    ELSE offset

RenderRows == VisibleRowCount(ContentAreaHeight(height))

(***************************************************************************)
(* C19: the bottom of the list is reachable by scroll-down keys.  When the *)
(* visible sequence is longer than the rows the table renders, a           *)
(* scroll-down key that leaves the offset where it is has found it at      *)
(* N - visible_row_count or beyond: short of the offset at which the last  *)
(* row is rendered, every scroll-down key makes progress.                  *)
(***************************************************************************)
C19_BottomReachable ==
    [][(NormalDown /\ Len(Visible) > RenderRows /\ scroll_offset' <= scroll_offset)
          => scroll_offset >= Len(Visible) - RenderRows]_vars

\* Buy amounts minus Sell amounts of user u over the trades of the log that
\* the symbol filter matches.
RECURSIVE NetMatching(_, _, _)
NetMatching(trades, u, symbol) ==
    IF trades = <<>> THEN 0
    ELSE LET t == Head(trades)
             mine == t.username = u /\ SymbolMatches(t, symbol)
         IN  NetMatching(Tail(trades), u, symbol)
               + (IF mine /\ t.action = "BUY" THEN t.amount
                  ELSE IF mine /\ t.action = "SELL" THEN 0 - t.amount
                  ELSE 0)

(***************************************************************************)
(* C20: with a search symbol active, the balances panel of the frame lists *)
(* each user once, sorted by quantity descending, and a user is listed iff *)
(* their Buy minus Sell amount over the trades the symbol filter matches   *)
(* (case-insensitively) is not zero.                                       *)
(***************************************************************************)
C20_BalanceViewBySymbol ==
    (pc = "poll" /\ active_search_symbol # None) =>
        /\ frame.balances # None
        /\ LET panel == frame.balances[1]
           IN  /\ \A i, j \in 1..Len(panel) :
                     i < j => /\ panel[i].username # panel[j].username
                              /\ panel[i].balance >= panel[j].balance
               /\ {panel[i].username : i \in 1..Len(panel)}
                     = {u \in Usernames :
                           NetMatching(all_trades, u, active_search_symbol) # 0}

\* A key handled in Editing mode: the consumer leaves the key match.
EditingStep == pc = "poll" /\ input_mode = "Editing" /\ pc' # pc

(***************************************************************************)
(* C22: in Editing mode no key makes the program fail, whatever character  *)
(* is typed and wherever the cursor is: a step that lengthens the buffer   *)
(* has inserted one character at cursor_position and advanced the cursor   *)
(* by one, and a step that shortens it has removed the character           *)
(* immediately before the cursor and moved the cursor back by one.         *)
(***************************************************************************)
C22_EditingNeverFails ==
    [][EditingStep =>
          /\ pc' # "panicked"
          /\ Len(search_input') > Len(search_input) =>
                /\ \E c \in Chars :
                      search_input' = StringInsert(search_input, cursor_position, c)
                /\ cursor_position' = cursor_position + 1
          /\ Len(search_input') < Len(search_input) =>
                /\ cursor_position > 0
                /\ search_input' = StringRemove(search_input, cursor_position - 1)
                /\ cursor_position' = cursor_position - 1]_vars

\* The cancel key: the one way from Editing to Normal that is no commit.
CancelStep == EditingStep /\ input_mode' = "Normal" /\ ~EditSubmit

(***************************************************************************)
(* C23: the cancel key in Editing mode changes the mode to Normal and      *)
(* nothing else: buffer, cursor, committed symbol, type filter, offset,    *)
(* log and balances stay as they are; and a submit key in Normal mode      *)
(* commits the buffer as it stands, so what was typed before the cancel.   *)
(***************************************************************************)
C23_CancelKeepsEdit ==
    [][/\ CancelStep
            => /\ pc' = "recv"
               /\ UNCHANGED <<search_input, cursor_position, active_search_symbol,
                              trade_type_filter, scroll_offset, all_trades,
                              user_balances>>
       /\ (pc = "poll" /\ input_mode = "Normal" /\ pc' # pc
              /\ active_search_symbol' # active_search_symbol)
            => /\ active_search_symbol' = SubmitSearch(search_input)
               /\ UNCHANGED <<search_input, cursor_position, input_mode>>]_vars

\* An edit was cancelled: the mode is Normal again while the buffer holds
\* two characters that were never committed (a submit would have set the
\* symbol), the cursor is still inside the buffer and the view is still
\* scrolled to the offset of the frame on screen.
C23_Witness ==
    /\ pc = "recv"
    /\ input_mode = "Normal"
    /\ search_input = <<" ", "b">>
    /\ cursor_position = 1
    /\ active_search_symbol = None
    /\ scroll_offset > 0
    /\ frame.lo = scroll_offset

(***************************************************************************)
(* SpecBridge: the producer enqueues and disconnects at any time while the *)
(* user edits the search buffer or quits.                                  *)
(***************************************************************************)
MaxBridgeSent == 2

MaxBridgeInput == 2

BridgeFeed ==
    {Trade("live-trade", "BUY", "alice", 1, <<"b">>),
     Trade("all-trades", "SELL", "bob", 1, <<"b">>)}

BridgeTyped == {"b", "e_acute"}

BridgeHeights == {10}

InitBridge ==
    InitApp(StoresOf(BridgeFeed), BridgeHeights) /\ call = None /\ result = None

NextBridge ==
    \/ Main
    \/ ProducerSend(BridgeFeed, MaxBridgeSent)
    \/ ProducerStop
    \/ RecvTrade({TRUE, FALSE})
    \/ RecvEmpty
    \/ RecvDisconnected
    \/ Draw
    \/ PollNoKey
    \/ NormalQuit
    \/ NormalEnterEdit
    \/ EditChar(BridgeTyped, MaxBridgeInput)
    \/ EditBackspace
    \/ EditEnd
    \/ EditEsc

SpecBridge == InitBridge /\ [][NextBridge]_vars

\* The quit key: the loop returns from the key match of Normal mode.
QuitStep == pc = "poll" /\ input_mode = "Normal" /\ pc' = "done"

\* The consumer stops running, for whatever reason.
LoopStops == Running /\ ~Running'

(***************************************************************************)
(* C21: no enqueued trade is lost.  While the loop runs the log is the     *)
(* loaded log under the trades taken from the queue so far, each once and  *)
(* in the order sent; a drain attempt takes the oldest queued trade, or    *)
(* goes on at once to draw when the queue is empty; and unless the user    *)
(* quits, the loop stops only when every enqueued trade is in the log.     *)
(***************************************************************************)
C21_NoTradeLost ==
    [][/\ Started => all_trades = Reverse(SubSeq(sent, 1, Ingested)) \o loaded
       /\ (DrainAttempt /\ chan # <<>>) => (pc' = "draw" /\ chan' = Tail(chan))
       /\ (DrainAttempt /\ chan = <<>> /\ tx_alive) => pc' = "draw"
       /\ (LoopStops /\ ~QuitStep)
            => (chan = <<>> /\ all_trades = Reverse(sent) \o loaded)]_vars

=============================================================================
